---- MODULE Spec2Model ----
(***************************************************************************)
(* Model of the ITK Conan recipe (recipes/itk/all/conanfile.py): option     *)
(* validation, the component graph built by _itk_components, the cmake      *)
(* configuration and the recipe lifecycle validate -> build -> package ->   *)
(* package_info.                                                            *)
(***************************************************************************)
EXTENDS Integers, Sequences, FiniteSets, TLC

\* ---- the recipe versions explored: "major.minor" ----
VersionMajorMax == 5
VersionMajors == 4..VersionMajorMax
VersionMinors == {2, 3}

Versions == [major : VersionMajors, minor : VersionMinors]

\* with_python_bindings: [None, "ANY"]; Conan keeps the value as a string
PythonBindings == {"None", "cp39"}

\* the option sets of the recipe (fPIC aside)
Options ==
  [shared : BOOLEAN, with_cuda : BOOLEAN, with_dcmtk : BOOLEAN,
   with_elastix : BOOLEAN, with_gdcm : BOOLEAN,
   with_python_bindings : PythonBindings, with_rtk : BOOLEAN,
   with_scanco : BOOLEAN, with_gpu : BOOLEAN]

default_options ==
  [shared |-> FALSE, fPIC |-> TRUE, with_cuda |-> FALSE, with_dcmtk |-> TRUE,
   with_elastix |-> FALSE, with_gdcm |-> TRUE,
   with_python_bindings |-> "None", with_rtk |-> FALSE,
   with_scanco |-> FALSE, with_gpu |-> TRUE]

\* settings os / compiler / compiler.version / compiler.cppstd (0 = not set)
Settings ==
  { [os |-> "Linux",   compiler |-> "gcc",   compiler_version |-> <<9>>,    cppstd |-> 0],
    [os |-> "Linux",   compiler |-> "gcc",   compiler_version |-> <<4, 8>>, cppstd |-> 0],
    [os |-> "Linux",   compiler |-> "clang", compiler_version |-> <<12>>,   cppstd |-> 98],
    [os |-> "Windows", compiler |-> "intel", compiler_version |-> <<19>>,   cppstd |-> 14] }

\* ---- helpers for Python / Conan values ----

\* truth value of a Conan option holding a string (if self.options.x:)
OptionTruthy(v) == v \notin {"None", "False", "0", "Off", ""}

\* "self.options.x is not None": the attribute is an option-value object,
\* never the Python None singleton
IsNotNone(v) == TRUE

\* tools.Version comparison a < b, component by component, missing parts = 0
RECURSIVE VersionLess(_, _)
VersionLess(a, b) ==
  IF a = <<>> /\ b = <<>> THEN FALSE
  ELSE LET x == IF a = <<>> THEN 0 ELSE Head(a)
           y == IF b = <<>> THEN 0 ELSE Head(b)
       IN IF x # y THEN x < y
          ELSE VersionLess(IF a = <<>> THEN a ELSE Tail(a),
                           IF b = <<>> THEN b ELSE Tail(b))

\* year a cppstd value stands for (98 sorts before 11, 14, ...)
CppStdYear(c) == IF c = 98 THEN 1998 ELSE 2000 + c

_minimum_cpp_standard == 11

MinimumCompilers == {"Visual Studio", "gcc", "clang", "apple-clang"}

_minimum_compilers_version(compiler) ==
  CASE compiler = "Visual Studio" -> <<14>>
    [] compiler = "gcc"           -> <<4, 8, 1>>
    [] compiler = "clang"         -> <<3, 3>>
    [] compiler = "apple-clang"   -> <<9>>

\* ---- validate() ----
NoError == "ok"
ErrHdf5Shared == "When building a shared itk, hdf5 needs to be shared too"
ErrElastixVersion == "Elastix has only been validated for ITK version 5.3"
ErrElastixGdcm == "When building elastix support, gdcm needs to be enabled"
ErrCppStd == "Current cppstd is lower than the required C++ standard"
ErrCompiler == "itk requires C++11 support. The current compiler does not support it."

\* the settings an error message names
ErrorNames(e) ==
  CASE e = ErrHdf5Shared     -> {"shared", "hdf5"}
    [] e = ErrElastixVersion -> {"with_elastix", "version"}
    [] e = ErrElastixGdcm    -> {"with_elastix", "with_gdcm"}
    [] e = ErrCppStd         -> {"cppstd"}
    [] e = ErrCompiler       -> {"compiler"}
    [] OTHER                 -> {}

\* validate() with the hdf5 test lacking its "not"
ValidateError_hdf5(o, h5shared, v, s) ==
  IF o.shared /\ h5shared THEN ErrHdf5Shared
  ELSE IF o.with_elastix /\ (v.major # 5 /\ v.minor # 3) THEN ErrElastixVersion
  ELSE IF o.with_elastix /\ ~o.with_gdcm THEN ErrElastixGdcm
  ELSE IF s.cppstd # 0 /\ CppStdYear(s.cppstd) < CppStdYear(_minimum_cpp_standard) THEN ErrCppStd
  ELSE IF s.compiler \notin MinimumCompilers THEN NoError
  ELSE IF VersionLess(s.compiler_version, _minimum_compilers_version(s.compiler)) THEN ErrCompiler
  ELSE NoError

\* validate() with the elastix prerequisite tested on with_dcmtk
ValidateError_dcmtk(o, h5shared, v, s) ==
  IF o.shared /\ ~h5shared THEN ErrHdf5Shared
  ELSE IF o.with_elastix /\ (v.major # 5 /\ v.minor # 3) THEN ErrElastixVersion
  ELSE IF o.with_elastix /\ ~o.with_dcmtk THEN ErrElastixGdcm
  ELSE IF s.cppstd # 0 /\ CppStdYear(s.cppstd) < CppStdYear(_minimum_cpp_standard) THEN ErrCppStd
  ELSE IF s.compiler \notin MinimumCompilers THEN NoError
  ELSE IF VersionLess(s.compiler_version, _minimum_compilers_version(s.compiler)) THEN ErrCompiler
  ELSE NoError

\* the exception validate() raises, NoError when it returns
ValidateError(o, h5shared, v, s) ==
  IF o.shared /\ ~h5shared THEN ErrHdf5Shared
  ELSE IF o.with_elastix /\ (v.major # 5 /\ v.minor # 3) THEN ErrElastixVersion
  ELSE IF o.with_elastix /\ ~o.with_gdcm THEN ErrElastixGdcm
  ELSE IF s.cppstd # 0 /\ CppStdYear(s.cppstd) < CppStdYear(_minimum_cpp_standard) THEN ErrCppStd
  ELSE IF s.compiler \notin MinimumCompilers THEN NoError
  ELSE IF VersionLess(s.compiler_version, _minimum_compilers_version(s.compiler)) THEN ErrCompiler
  ELSE NoError

\* the warning validate() prints when the compiler is not in the table
ValidateWarns(o, h5shared, v, s) ==
  /\ ValidateError(o, h5shared, v, s) = NoError
  /\ s.compiler \notin MinimumCompilers

\* ---- _itk_components ----

\* a component record as package_info reads it (values.get with defaults; no
\* entry of the table has a "header_only" key);
\* a requires entry is the entry split on "::" (<<name>> is internal,
\* <<package, component>> is external)
Component(n, req, l, sl, inc) ==
  [name |-> n, requires |-> req, libs |-> l, system_libs |-> sl, includes |-> inc,
   header_only |-> FALSE]

libm(os) == IF os \in {"Linux", "FreeBSD"} THEN <<"m">> ELSE <<>>

IsInternal(r) == Len(r) = 1

\* a dict as the sequence of its items in insertion order
\* d[key] = value: replaces in place or appends
DictSet(d, e) ==
  IF \E i \in 1..Len(d) : d[i].name = e.name
  THEN [i \in 1..Len(d) |-> IF d[i].name = e.name THEN e ELSE d[i]]
  ELSE Append(d, e)

\* d.update(items) / a dict display {k: v, ...}
\* (item i of the update ends up in the dict when no later item has its
\* key; it takes the place of d's entry with that key, or else is appended
\* where the first item with that key was)
DictUpdate(d, items) ==
  LET n == Len(items)
      m == Len(d)
      LastOf(nm) == CHOOSE i \in 1..n :
                      /\ items[i].name = nm
                      /\ \A j \in (i + 1)..n : items[j].name # nm
      Updated(e) == IF \E i \in 1..n : items[i].name = e.name
                    THEN items[LastOf(e.name)] ELSE e
      IsNew(i) == /\ \A k \in 1..m : d[k].name # items[i].name
                  /\ \A j \in 1..(i - 1) : items[j].name # items[i].name
      added == SelectSeq([i \in 1..n |-> i], IsNew)
  IN [k \in 1..m |-> Updated(d[k])] \o [k \in 1..Len(added) |-> items[LastOf(items[added[k]].name)]]

Keys(d) == {d[i].name : i \in 1..Len(d)}
KeySeq(d) == [i \in 1..Len(d) |-> d[i].name]
Get(d, n) == d[CHOOSE i \in 1..Len(d) : d[i].name = n]

\* optional_modules with the scanco module stored under a core name
optional_modules_clash(o) ==
  LET m0 == <<>>
      m1 == IF o.with_dcmtk
            THEN DictSet(m0, Component("ITKIODCMTK", << <<"ITKIOImageBase">>, <<"dcmtk", "dcmtk">> >>, <<>>, <<>>, <<>>))
            ELSE m0
      m2 == IF o.with_rtk
            THEN DictSet(m1, Component("itkRTK", <<>>,
                                       IF o.with_cuda THEN <<"lpsolve55", "ITKCudaCommon">> ELSE <<"lpsolve55">>,
                                       <<>>, <<"include/RTK/lpsolve">>))
            ELSE m1
      m3 == IF o.with_scanco
            THEN DictSet(m2, Component("ITKCommon", <<>>, <<>>, <<>>, <<>>))
            ELSE m2
      m4 == IF o.with_gdcm
            THEN DictSet(m3, Component("ITKIOGDCM", << <<"ITKCommon">>, <<"ITKIOImageBase">>, <<"gdcm", "gdcmDICT">>, <<"gdcm", "gdcmMSFF">> >>, <<>>, <<>>, <<>>))
            ELSE m3
      m5 == IF o.with_elastix
            THEN DictSet(m4, Component("ITKElastix", << <<"libdeflate", "libdeflate">> >>, <<>>, <<>>, <<>>))
            ELSE m4
  IN m5

\* optional_modules with the IOScanco entry outside its "if"
optional_modules_scanco(o) ==
  LET m0 == <<>>
      m1 == IF o.with_dcmtk
            THEN DictSet(m0, Component("ITKIODCMTK", << <<"ITKIOImageBase">>, <<"dcmtk", "dcmtk">> >>, <<>>, <<>>, <<>>))
            ELSE m0
      m2 == IF o.with_rtk
            THEN DictSet(m1, Component("itkRTK", <<>>,
                                       IF o.with_cuda THEN <<"lpsolve55", "ITKCudaCommon">> ELSE <<"lpsolve55">>,
                                       <<>>, <<"include/RTK/lpsolve">>))
            ELSE m1
      m3 == IF TRUE
            THEN DictSet(m2, Component("IOScanco", <<>>, <<>>, <<>>, <<>>))
            ELSE m2
      m4 == IF o.with_gdcm
            THEN DictSet(m3, Component("ITKIOGDCM", << <<"ITKCommon">>, <<"ITKIOImageBase">>, <<"gdcm", "gdcmDICT">>, <<"gdcm", "gdcmMSFF">> >>, <<>>, <<>>, <<>>))
            ELSE m3
      m5 == IF o.with_elastix
            THEN DictSet(m4, Component("ITKElastix", << <<"libdeflate", "libdeflate">> >>, <<>>, <<>>, <<>>))
            ELSE m4
  IN m5

\* optional_modules adding ITKElastix only along with gdcm
optional_modules_elastix(o) ==
  LET m0 == <<>>
      m1 == IF o.with_dcmtk
            THEN DictSet(m0, Component("ITKIODCMTK", << <<"ITKIOImageBase">>, <<"dcmtk", "dcmtk">> >>, <<>>, <<>>, <<>>))
            ELSE m0
      m2 == IF o.with_rtk
            THEN DictSet(m1, Component("itkRTK", <<>>,
                                       IF o.with_cuda THEN <<"lpsolve55", "ITKCudaCommon">> ELSE <<"lpsolve55">>,
                                       <<>>, <<"include/RTK/lpsolve">>))
            ELSE m1
      m3 == IF o.with_scanco
            THEN DictSet(m2, Component("IOScanco", <<>>, <<>>, <<>>, <<>>))
            ELSE m2
      m4 == IF o.with_gdcm
            THEN DictSet(m3, Component("ITKIOGDCM", << <<"ITKCommon">>, <<"ITKIOImageBase">>, <<"gdcm", "gdcmDICT">>, <<"gdcm", "gdcmMSFF">> >>, <<>>, <<>>, <<>>))
            ELSE m3
      m5 == IF o.with_elastix /\ o.with_gdcm
            THEN DictSet(m4, Component("ITKElastix", << <<"libdeflate", "libdeflate">> >>, <<>>, <<>>, <<>>))
            ELSE m4
  IN m5

\* optional_modules with ITKIOGDCM requiring ITKReview
optional_modules_cycle(o) ==
  LET m0 == <<>>
      m1 == IF o.with_dcmtk
            THEN DictSet(m0, Component("ITKIODCMTK", << <<"ITKIOImageBase">>, <<"dcmtk", "dcmtk">> >>, <<>>, <<>>, <<>>))
            ELSE m0
      m2 == IF o.with_rtk
            THEN DictSet(m1, Component("itkRTK", <<>>,
                                       IF o.with_cuda THEN <<"lpsolve55", "ITKCudaCommon">> ELSE <<"lpsolve55">>,
                                       <<>>, <<"include/RTK/lpsolve">>))
            ELSE m1
      m3 == IF o.with_scanco
            THEN DictSet(m2, Component("IOScanco", <<>>, <<>>, <<>>, <<>>))
            ELSE m2
      m4 == IF o.with_gdcm
            THEN DictSet(m3, Component("ITKIOGDCM", << <<"ITKReview">>, <<"ITKIOImageBase">>, <<"gdcm", "gdcmDICT">>, <<"gdcm", "gdcmMSFF">> >>, <<>>, <<>>, <<>>))
            ELSE m3
      m5 == IF o.with_elastix
            THEN DictSet(m4, Component("ITKElastix", << <<"libdeflate", "libdeflate">> >>, <<>>, <<>>, <<>>))
            ELSE m4
  IN m5

\* optional_modules appending ITKCudaCommon under with_gpu
optional_modules_gpu(o) ==
  LET m0 == <<>>
      m1 == IF o.with_dcmtk
            THEN DictSet(m0, Component("ITKIODCMTK", << <<"ITKIOImageBase">>, <<"dcmtk", "dcmtk">> >>, <<>>, <<>>, <<>>))
            ELSE m0
      m2 == IF o.with_rtk
            THEN DictSet(m1, Component("itkRTK", <<>>,
                                       IF o.with_gpu THEN <<"lpsolve55", "ITKCudaCommon">> ELSE <<"lpsolve55">>,
                                       <<>>, <<"include/RTK/lpsolve">>))
            ELSE m1
      m3 == IF o.with_scanco
            THEN DictSet(m2, Component("IOScanco", <<>>, <<>>, <<>>, <<>>))
            ELSE m2
      m4 == IF o.with_gdcm
            THEN DictSet(m3, Component("ITKIOGDCM", << <<"ITKCommon">>, <<"ITKIOImageBase">>, <<"gdcm", "gdcmDICT">>, <<"gdcm", "gdcmMSFF">> >>, <<>>, <<>>, <<>>))
            ELSE m3
      m5 == IF o.with_elastix
            THEN DictSet(m4, Component("ITKElastix", << <<"libdeflate", "libdeflate">> >>, <<>>, <<>>, <<>>))
            ELSE m4
  IN m5

optional_modules(o) ==
  LET m0 == <<>>
      m1 == IF o.with_dcmtk
            THEN DictSet(m0, Component("ITKIODCMTK", << <<"ITKIOImageBase">>, <<"dcmtk", "dcmtk">> >>, <<>>, <<>>, <<>>))
            ELSE m0
      m2 == IF o.with_rtk
            THEN DictSet(m1, Component("itkRTK", <<>>,
                                       IF o.with_cuda THEN <<"lpsolve55", "ITKCudaCommon">> ELSE <<"lpsolve55">>,
                                       <<>>, <<"include/RTK/lpsolve">>))
            ELSE m1
      m3 == IF o.with_scanco
            THEN DictSet(m2, Component("IOScanco", <<>>, <<>>, <<>>, <<>>))
            ELSE m2
      m4 == IF o.with_gdcm
            THEN DictSet(m3, Component("ITKIOGDCM", << <<"ITKCommon">>, <<"ITKIOImageBase">>, <<"gdcm", "gdcmDICT">>, <<"gdcm", "gdcmMSFF">> >>, <<>>, <<>>, <<>>))
            ELSE m3
      m5 == IF o.with_elastix
            THEN DictSet(m4, Component("ITKElastix", << <<"libdeflate", "libdeflate">> >>, <<>>, <<>>, <<>>))
            ELSE m4
  IN m5

\* the items of the dict display passed to modules.update, libm_ being the
\* value of libm()
MandatoryTable(libm_) == <<
    Component("itksys", <<>>, <<>>, <<>>, <<>>),
    Component("itkvcl", <<>>, <<>>, libm_, <<>>),
    Component("itkv3p_netlib", <<>>, <<>>, libm_, <<>>),
    Component("itkvnl", << <<"itkvcl">> >>, <<>>, <<>>, <<>>),
    Component("itkvnl_algo", << <<"itkv3p_netlib">>, <<"itkvnl">> >>, <<>>, <<>>, <<>>),
    Component("itktestlib", << <<"itkvcl">> >>, <<>>, <<>>, <<>>),
    Component("ITKVNLInstantiation", << <<"itkvnl_algo">>, <<"itkvnl">>, <<"itkv3p_netlib">>, <<"itkvcl">> >>, <<>>, <<>>, <<>>),
    Component("ITKCommon", << <<"itksys">>, <<"ITKVNLInstantiation">>, <<"eigen", "eigen">>, <<"onetbb", "onetbb">>, <<"double-conversion", "double-conversion">> >>, <<>>, libm_, <<>>),
    Component("itkNetlibSlatec", << <<"itkv3p_netlib">> >>, <<>>, <<>>, <<>>),
    Component("ITKStatistics", << <<"ITKCommon">>, <<"itkNetlibSlatec">> >>, <<>>, <<>>, <<>>),
    Component("ITKTransform", << <<"ITKCommon">> >>, <<>>, <<>>, <<>>),
    Component("ITKMesh", << <<"ITKTransform">> >>, <<>>, <<>>, <<>>),
    Component("ITKMetaIO", << <<"zlib", "zlib">> >>, <<>>, <<>>, <<>>),
    Component("ITKSpatialObjects", << <<"ITKTransform">>, <<"ITKCommon">>, <<"ITKMesh">> >>, <<>>, <<>>, <<>>),
    Component("ITKPath", << <<"ITKCommon">> >>, <<>>, <<>>, <<>>),
    Component("ITKImageIntensity", <<>>, <<>>, <<>>, <<>>),
    Component("ITKLabelMap", << <<"ITKCommon">>, <<"ITKStatistics">>, <<"ITKTransform">>, <<"ITKSpatialObjects">>, <<"ITKPath">> >>, <<>>, <<>>, <<>>),
    Component("ITKQuadEdgeMesh", << <<"ITKMesh">> >>, <<>>, <<>>, <<>>),
    Component("ITKFastMarching", <<>>, <<>>, <<>>, <<>>),
    Component("ITKIOImageBase", << <<"ITKCommon">> >>, <<>>, <<>>, <<>>),
    Component("ITKSmoothing", <<>>, <<>>, <<>>, <<>>),
    Component("ITKImageFeature", << <<"ITKSmoothing">>, <<"ITKSpatialObjects">> >>, <<>>, <<>>, <<>>),
    Component("ITKOptimizers", << <<"ITKStatistics">> >>, <<>>, <<>>, <<>>),
    Component("ITKPolynomials", << <<"ITKCommon">> >>, <<>>, <<>>, <<>>),
    Component("ITKBiasCorrection", << <<"ITKCommon">>, <<"ITKStatistics">>, <<"ITKTransform">>, <<"ITKSpatialObjects">>, <<"ITKPath">> >>, <<>>, <<>>, <<>>),
    Component("ITKColormap", <<>>, <<>>, <<>>, <<>>),
    Component("ITKFFT", << <<"ITKCommon">>, <<"fftw", "fftw">> >>, <<>>, <<>>, <<>>),
    Component("ITKConvolution", << <<"ITKFFT">>, <<"ITKCommon">>, <<"ITKStatistics">>, <<"ITKTransform">>, <<"ITKSpatialObjects">>, <<"ITKPath">> >>, <<>>, <<>>, <<>>),
    Component("ITKDICOMParser", <<>>, <<>>, <<>>, <<>>),
    Component("ITKDeformableMesh", << <<"ITKCommon">>, <<"ITKStatistics">>, <<"ITKTransform">>, <<"ITKImageFeature">>, <<"ITKSpatialObjects">>, <<"ITKPath">>, <<"ITKMesh">> >>, <<>>, <<>>, <<>>),
    Component("ITKDenoising", <<>>, <<>>, <<>>, <<>>),
    Component("ITKDiffusionTensorImage", <<>>, <<>>, <<>>, <<>>),
    Component("ITKIOXML", << <<"ITKIOImageBase">>, <<"expat", "expat">> >>, <<>>, <<>>, <<>>),
    Component("ITKIOSpatialObjects", << <<"ITKSpatialObjects">>, <<"ITKIOXML">>, <<"ITKMesh">> >>, <<>>, <<>>, <<>>),
    Component("ITKFEM", << <<"ITKCommon">>, <<"ITKStatistics">>, <<"ITKTransform">>, <<"ITKSpatialObjects">>, <<"ITKPath">>, <<"ITKSmoothing">>, <<"ITKImageFeature">>, <<"ITKOptimizers">>, <<"ITKMetaIO">> >>, <<>>, <<>>, <<>>),
    Component("ITKPDEDeformableRegistration", << <<"ITKCommon">>, <<"ITKStatistics">>, <<"ITKTransform">>, <<"ITKSpatialObjects">>, <<"ITKPath">>, <<"ITKSmoothing">>, <<"ITKImageFeature">>, <<"ITKOptimizers">> >>, <<>>, <<>>, <<>>),
    Component("ITKFEMRegistration", << <<"ITKFEM">>, <<"ITKImageFeature">>, <<"ITKCommon">>, <<"ITKSpatialObjects">>, <<"ITKTransform">>, <<"ITKPDEDeformableRegistration">> >>, <<>>, <<>>, <<>>),
    Component("ITKznz", << <<"zlib", "zlib">> >>, <<>>, <<>>, <<>>),
    Component("ITKniftiio", << <<"ITKznz">> >>, <<>>, libm_, <<>>),
    Component("ITKgiftiio", << <<"ITKznz">>, <<"ITKniftiio">>, <<"expat", "expat">> >>, <<>>, <<>>, <<>>),
    Component("ITKImageGrid", <<>>, <<>>, <<>>, <<>>),
    Component("ITKIOBMP", << <<"ITKIOImageBase">> >>, <<>>, <<>>, <<>>),
    Component("ITKIOBioRad", << <<"ITKIOImageBase">> >>, <<>>, <<>>, <<>>),
    Component("ITKIOCSV", << <<"ITKIOImageBase">> >>, <<>>, <<>>, <<>>),
    Component("ITKIOIPL", << <<"ITKIOImageBase">> >>, <<>>, <<>>, <<>>),
    Component("ITKIOGE", << <<"ITKIOIPL">>, <<"ITKIOImageBase">> >>, <<>>, <<>>, <<>>),
    Component("ITKIOGIPL", << <<"ITKIOImageBase">>, <<"zlib", "zlib">> >>, <<>>, <<>>, <<>>),
    Component("ITKIOHDF5", << <<"ITKIOImageBase">>, <<"hdf5", "hdf5">> >>, <<>>, <<>>, <<>>),
    Component("ITKIOJPEG", << <<"ITKIOImageBase">>, <<"libjpeg", "libjpeg">> >>, <<>>, <<>>, <<>>),
    Component("ITKIOMeshBase", << <<"ITKCommon">>, <<"ITKIOImageBase">>, <<"ITKMesh">>, <<"ITKQuadEdgeMesh">> >>, <<>>, <<>>, <<>>),
    Component("ITKIOMeshBYU", << <<"ITKCommon">>, <<"ITKIOMeshBase">> >>, <<>>, <<>>, <<>>),
    Component("ITKIOMeshFreeSurfer", << <<"ITKCommon">>, <<"ITKIOMeshBase">> >>, <<>>, <<>>, <<>>),
    Component("ITKIOMeshGifti", << <<"ITKCommon">>, <<"ITKIOMeshBase">>, <<"ITKgiftiio">> >>, <<>>, <<>>, <<>>),
    Component("ITKIOMeshOBJ", << <<"ITKCommon">>, <<"ITKIOMeshBase">> >>, <<>>, <<>>, <<>>),
    Component("ITKIOMeshOFF", << <<"ITKCommon">>, <<"ITKIOMeshBase">> >>, <<>>, <<>>, <<>>),
    Component("ITKIOMeshVTK", << <<"ITKCommon">>, <<"ITKIOMeshBase">>, <<"double-conversion", "double-conversion">> >>, <<>>, <<>>, <<>>),
    Component("ITKIOMeta", << <<"ITKIOImageBase">>, <<"ITKMetaIO">> >>, <<>>, <<>>, <<>>),
    Component("ITKIONIFTI", << <<"ITKIOImageBase">>, <<"ITKznz">>, <<"ITKniftiio">>, <<"ITKTransform">> >>, <<>>, <<>>, <<>>),
    Component("ITKNrrdIO", << <<"zlib", "zlib">> >>, <<>>, <<>>, <<>>),
    Component("ITKIONRRD", << <<"ITKIOImageBase">>, <<"ITKNrrdIO">> >>, <<>>, <<>>, <<>>),
    Component("ITKIOPNG", << <<"ITKIOImageBase">>, <<"libpng", "libpng">> >>, <<>>, <<>>, <<>>),
    Component("ITKIOPhilipsREC", << <<"zlib", "zlib">> >>, <<>>, <<>>, <<>>),
    Component("ITKIOSiemens", << <<"ITKIOImageBase">>, <<"ITKIOIPL">> >>, <<>>, <<>>, <<>>),
    Component("ITKIOStimulate", << <<"ITKIOImageBase">> >>, <<>>, <<>>, <<>>),
    Component("ITKIOTIFF", << <<"ITKIOImageBase">>, <<"libtiff", "libtiff">> >>, <<>>, <<>>, <<>>),
    Component("ITKTransformFactory", << <<"ITKCommon">>, <<"ITKTransform">> >>, <<>>, <<>>, <<>>),
    Component("ITKIOTransformBase", << <<"ITKCommon">>, <<"ITKTransform">>, <<"ITKTransformFactory">> >>, <<>>, <<>>, <<>>),
    Component("ITKIOTransformHDF5", << <<"ITKIOTransformBase">>, <<"hdf5", "hdf5">> >>, <<>>, <<>>, <<>>),
    Component("ITKIOTransformInsightLegacy", << <<"ITKIOTransformBase">>, <<"double-conversion", "double-conversion">> >>, <<>>, <<>>, <<>>),
    Component("ITKIOTransformMatlab", << <<"ITKIOTransformBase">> >>, <<>>, <<>>, <<>>),
    Component("ITKIOVTK", << <<"ITKIOImageBase">> >>, <<>>, <<>>, <<>>),
    Component("ITKKLMRegionGrowing", << <<"ITKCommon">> >>, <<>>, <<>>, <<>>),
    Component("itklbfgs", <<>>, <<>>, <<>>, <<>>),
    Component("ITKMarkovRandomFieldsClassifiers", << <<"ITKCommon">>, <<"ITKStatistics">>, <<"ITKTransform">>, <<"ITKSpatialObjects">>, <<"ITKPath">> >>, <<>>, <<>>, <<>>),
    Component("ITKOptimizersv4", << <<"ITKOptimizers">>, <<"itklbfgs">> >>, <<>>, <<>>, <<>>),
    Component("itkopenjpeg", <<>>, <<"itkopenjpeg">>, <<>>, <<>>),
    Component("ITKQuadEdgeMeshFiltering", << <<"ITKMesh">> >>, <<>>, <<>>, <<>>),
    Component("ITKRegionGrowing", << <<"ITKCommon">>, <<"ITKStatistics">>, <<"ITKTransform">>, <<"ITKSpatialObjects">>, <<"ITKPath">> >>, <<>>, <<>>, <<>>),
    Component("ITKRegistrationMethodsv4", << <<"ITKCommon">>, <<"ITKOptimizersv4">>, <<"ITKStatistics">>, <<"ITKTransform">>, <<"ITKSpatialObjects">>, <<"ITKPath">>, <<"ITKSmoothing">>, <<"ITKImageFeature">>, <<"ITKOptimizers">> >>, <<>>, <<>>, <<>>),
    Component("ITKVTK", << <<"ITKCommon">> >>, <<>>, <<>>, <<>>),
    Component("ITKWatersheds", << <<"ITKCommon">>, <<"ITKStatistics">>, <<"ITKTransform">>, <<"ITKSpatialObjects">>, <<"ITKPath">>, <<"ITKSmoothing">> >>, <<>>, <<>>, <<>>),
    Component("ITKRegistrationCommon", <<>>, <<>>, <<>>, <<>>),
    Component("ITKReview", << <<"ITKCommon">>, <<"ITKStatistics">>, <<"ITKTransform">>, <<"ITKLabelMap">>, <<"ITKSpatialObjects">>, <<"ITKPath">>, <<"ITKFastMarching">>, <<"ITKIOImageBase">>, <<"ITKImageFeature">>, <<"ITKOptimizers">>, <<"ITKBiasCorrection">>, <<"ITKDeformableMesh">>, <<"ITKDiffusionTensorImage">>, <<"ITKSmoothing">>, <<"ITKFFT">>, <<"ITKIOBMP">>, <<"ITKIOBioRad">>, <<"ITKIOGDCM">>, <<"ITKIOGE">>, <<"ITKIOGIPL">>, <<"ITKIOIPL">>, <<"ITKIOJPEG">>, <<"ITKIOMeta">>, <<"ITKIONIFTI">>, <<"ITKIONRRD">>, <<"ITKIOPNG">>, <<"ITKIOSiemens">>, <<"ITKIOStimulate">>, <<"ITKIOTIFF">>, <<"ITKIOTransformHDF5">>, <<"ITKIOTransformInsightLegacy">>, <<"ITKIOTransformMatlab">>, <<"ITKIOVTK">>, <<"ITKIOXML">>, <<"ITKKLMRegionGrowing">>, <<"ITKMarkovRandomFieldsClassifiers">>, <<"ITKMesh">>, <<"ITKPDEDeformableRegistration">>, <<"ITKPolynomials">>, <<"ITKQuadEdgeMesh">>, <<"ITKQuadEdgeMeshFiltering">>, <<"ITKRegionGrowing">>, <<"ITKVTK">>, <<"ITKWatersheds">>, <<"itkopenjpeg">> >>, <<>>, <<>>, <<>>),
    Component("ITKTestKernel", << <<"ITKCommon">>, <<"ITKIOImageBase">>, <<"ITKIOBMP">>, <<"ITKIOGDCM">>, <<"ITKIOGIPL">>, <<"ITKIOJPEG">>, <<"ITKIOMeshBYU">>, <<"ITKIOMeshFreeSurfer">>, <<"ITKIOMeshGifti">>, <<"ITKIOMeshOBJ">>, <<"ITKIOMeshOFF">>, <<"ITKIOMeshVTK">>, <<"ITKIOMeta">>, <<"ITKIONIFTI">>, <<"ITKIONRRD">>, <<"ITKIOPNG">>, <<"ITKIOTIFF">>, <<"ITKIOVTK">> >>, <<>>, <<>>, <<>>),
    Component("ITKVideoCore", << <<"ITKCommon">> >>, <<>>, <<>>, <<>>)
  >>

\* the two tables libm() can produce
MandatoryTablePosix == MandatoryTable(<<"m">>)
MandatoryTableOther == MandatoryTable(<<>>)

mandatory_items(os) ==
  IF libm(os) = <<"m">> THEN MandatoryTablePosix ELSE MandatoryTableOther

\* _itk_components updating the mandatory table with the optional modules
_itk_components_swapped(o, os) == DictUpdate(mandatory_items(os), optional_modules(o))

_itk_components(o, os) == DictUpdate(optional_modules(o), mandatory_items(os))

\* ---- _configure_cmake: the cmake definitions ----

\* option charset_conversion of the dcmtk dependency (its recipe default)
dcmtk_charset_conversion == "libiconv"

\* the assignments of _configure_cmake that no option guards
BaseDefinitions(o) ==
    [
     BUILD_EXAMPLES |-> FALSE,
     BUILD_TESTING |-> FALSE,
     BUILD_DOCUMENTATION |-> FALSE,
     ITK_SKIP_PATH_LENGTH_CHECKS |-> TRUE,
     ITK_USE_SYSTEM_LIBRARIES |-> TRUE,
     ITK_USE_SYSTEM_DOUBLECONVERSION |-> TRUE,
     ITK_USE_SYSTEM_EIGEN |-> TRUE,
     ITK_USE_SYSTEM_FFTW |-> TRUE,
     ITK_USE_SYSTEM_HDF5 |-> TRUE,
     ITK_USE_SYSTEM_ICU |-> TRUE,
     ITK_USE_SYSTEM_JPEG |-> TRUE,
     ITK_USE_SYSTEM_PNG |-> TRUE,
     ITK_USE_SYSTEM_TIFF |-> TRUE,
     ITK_USE_SYSTEM_ZLIB |-> TRUE,
     ITK_USE_SYSTEM_KWIML |-> FALSE,
     ITK_USE_SYSTEM_VXL |-> FALSE,
     ITK_BUILD_DEFAULT_MODULES |-> FALSE,
     Module_ITKDeprecated |-> FALSE,
     Module_ITKMINC |-> FALSE,
     Module_ITKIOMINC |-> FALSE,
     Module_ITKVideoBridgeOpenCV |-> FALSE,
     Module_ITKIOHDF5 |-> TRUE,
     Module_ITKIOTransformHDF5 |-> FALSE,
     Module_ITKAnisotropicSmoothing |-> TRUE,
     Module_ITKAntiAlias |-> TRUE,
     Module_ITKBiasCorrection |-> TRUE,
     Module_ITKBinaryMathematicalMorphology |-> TRUE,
     Module_ITKBioCell |-> TRUE,
     Module_ITKClassifiers |-> TRUE,
     Module_ITKColormap |-> TRUE,
     Module_ITKConnectedComponents |-> TRUE,
     Module_ITKConvolution |-> TRUE,
     Module_ITKCurvatureFlow |-> TRUE,
     Module_ITKDeconvolution |-> TRUE,
     Module_ITKDeformableMesh |-> TRUE,
     Module_ITKDenoising |-> TRUE,
     Module_ITKDiffusionTensorImage |-> TRUE,
     Module_ITKDisplacementField |-> TRUE,
     Module_ITKDistanceMap |-> TRUE,
     Module_ITKEigen |-> TRUE,
     Module_ITKFEM |-> TRUE,
     Module_ITKFEMRegistration |-> TRUE,
     Module_ITKFFT |-> TRUE,
     Module_ITKFastMarching |-> TRUE,
     Module_ITKGIFTI |-> TRUE,
     Module_ITKIOCSV |-> TRUE,
     Module_ITKIOGE |-> TRUE,
     Module_ITKIOIPL |-> TRUE,
     Module_ITKIOMesh |-> TRUE,
     Module_ITKIOPhilipsREC |-> TRUE,
     Module_ITKIORAW |-> TRUE,
     Module_ITKIOSiemens |-> TRUE,
     Module_ITKIOSpatialObjects |-> TRUE,
     Module_ITKIOTransformBase |-> TRUE,
     Module_ITKIOTransformInsightLegacy |-> TRUE,
     Module_ITKIOTransformMatlab |-> TRUE,
     Module_ITKIOXML |-> TRUE,
     Module_ITKImageCompare |-> TRUE,
     Module_ITKImageCompose |-> TRUE,
     Module_ITKImageFeature |-> TRUE,
     Module_ITKImageFusion |-> TRUE,
     Module_ITKImageGradient |-> TRUE,
     Module_ITKImageGrid |-> TRUE,
     Module_ITKImageIntensity |-> TRUE,
     Module_ITKImageLabel |-> TRUE,
     Module_ITKImageSources |-> TRUE,
     Module_ITKImageStatistics |-> TRUE,
     Module_ITKIntegratedTest |-> TRUE,
     Module_ITKKLMRegionGrowing |-> TRUE,
     Module_ITKLabelMap |-> TRUE,
     Module_ITKLabelVoting |-> TRUE,
     Module_ITKLevelSets |-> TRUE,
     Module_ITKLevelSetsv4 |-> TRUE,
     Module_ITKMarkovRandomFieldsClassifiers |-> TRUE,
     Module_ITKMathematicalMorphology |-> TRUE,
     Module_ITKMetricsv4 |-> TRUE,
     Module_ITKNarrowBand |-> TRUE,
     Module_ITKNeuralNetworks |-> TRUE,
     Module_ITKOptimizers |-> TRUE,
     Module_ITKOptimizersv4 |-> TRUE,
     Module_ITKPDEDeformableRegistration |-> TRUE,
     Module_ITKPath |-> TRUE,
     Module_ITKPolynomials |-> TRUE,
     Module_ITKQuadEdgeMeshFiltering |-> TRUE,
     Module_ITKRegionGrowing |-> TRUE,
     Module_ITKRegistrationCommon |-> TRUE,
     Module_ITKRegistrationMethodsv4 |-> TRUE,
     Module_ITKReview |-> TRUE,
     Module_ITKSignedDistanceFunction |-> TRUE,
     Module_ITKSmoothing |-> TRUE,
     Module_ITKSpatialFunction |-> TRUE,
     Module_ITKTBB |-> TRUE,
     Module_ITKThresholding |-> TRUE,
     Module_ITKVideoCore |-> TRUE,
     Module_ITKVideoFiltering |-> TRUE,
     Module_ITKVideoIO |-> FALSE,
     Module_ITKVoronoi |-> TRUE,
     Module_ITKWatersheds |-> TRUE,
     Module_ITKDICOMParser |-> TRUE,
     Module_ITKVTK |-> FALSE,
     Module_ITKVtkGlue |-> FALSE,
     Module_ITKLevelSetsv4Visualization |-> FALSE,
     Module_ITKVideoBridgeVXL |-> FALSE,
     Module_IOScanco |-> o.with_scanco,
     Module_ITKCudaCommon |-> o.with_cuda,
     Module_RTK |-> o.with_rtk,
     Module_ITKGPUAnisotropicSmoothing |-> o.with_gpu,
     Module_ITKGPUImageFilterBase |-> o.with_gpu,
     Module_ITKGPUPDEDeformableRegistration |-> o.with_gpu,
     Module_ITKGPURegistrationCommon |-> o.with_gpu,
     Module_ITKGPUSmoothing |-> o.with_gpu,
     Module_ITKGPUThresholding |-> o.with_gpu
    ]

GdcmDefinitions == [ITK_USE_SYSTEM_GDCM |-> TRUE, GDCM_USE_SYSTEM_OPENJPEG |-> TRUE]

DcmtkDefinitions ==
  [ITK_USE_SYSTEM_DCMTK |-> TRUE, Module_ITKDCMTK |-> TRUE, Module_ITKIODCMTK |-> TRUE,
   DCMTK_USE_ICU |-> (dcmtk_charset_conversion = "icu")]

RtkDefinitions(o) == [RTK_BUILD_APPLICATIONS |-> FALSE, RTK_USE_CUDA |-> o.with_cuda]

_build_bindings(o) == o.with_python_bindings

\* every key/value _configure_cmake puts in self._cmake.definitions
CmakeDefinitions(o) ==
  LET d0 == BaseDefinitions(o)
      d1 == IF o.with_gdcm THEN GdcmDefinitions @@ d0 ELSE d0
      d2 == IF o.with_dcmtk THEN DcmtkDefinitions @@ d1 ELSE d1
      d3 == IF o.with_rtk THEN RtkDefinitions(o) @@ d2 ELSE d2
      d4 == [ITK_WRAP_PYTHON |-> IsNotNone(o.with_python_bindings)] @@ d3
      d5 == IF OptionTruthy(o.with_python_bindings)
            THEN [PY_SITE_PACKAGES_PATH |-> "package_folder/lib/site-packages"] @@ d4
            ELSE d4
      d6 == IF OptionTruthy(_build_bindings(o))
            THEN [ITK_WRAP_unsigned_long_long |-> TRUE, ITK_WRAP_unsigned_short |-> TRUE] @@ d5
            ELSE d5
  IN d6

\* the key "Module_<name>" under which _configure_cmake toggles the module
\* of a component; the component of the RTK module is named itkRTK
ModuleKeys ==
  [ITKDeprecated |-> "Module_ITKDeprecated", ITKMINC |-> "Module_ITKMINC",
   ITKIOMINC |-> "Module_ITKIOMINC", ITKVideoBridgeOpenCV |-> "Module_ITKVideoBridgeOpenCV",
   ITKIOHDF5 |-> "Module_ITKIOHDF5", ITKIOTransformHDF5 |-> "Module_ITKIOTransformHDF5",
   ITKAnisotropicSmoothing |-> "Module_ITKAnisotropicSmoothing",
   ITKAntiAlias |-> "Module_ITKAntiAlias", ITKBiasCorrection |-> "Module_ITKBiasCorrection",
   ITKBinaryMathematicalMorphology |-> "Module_ITKBinaryMathematicalMorphology",
   ITKBioCell |-> "Module_ITKBioCell", ITKClassifiers |-> "Module_ITKClassifiers",
   ITKColormap |-> "Module_ITKColormap",
   ITKConnectedComponents |-> "Module_ITKConnectedComponents",
   ITKConvolution |-> "Module_ITKConvolution", ITKCurvatureFlow |-> "Module_ITKCurvatureFlow",
   ITKDeconvolution |-> "Module_ITKDeconvolution",
   ITKDeformableMesh |-> "Module_ITKDeformableMesh", ITKDenoising |-> "Module_ITKDenoising",
   ITKDiffusionTensorImage |-> "Module_ITKDiffusionTensorImage",
   ITKDisplacementField |-> "Module_ITKDisplacementField",
   ITKDistanceMap |-> "Module_ITKDistanceMap", ITKEigen |-> "Module_ITKEigen",
   ITKFEM |-> "Module_ITKFEM", ITKFEMRegistration |-> "Module_ITKFEMRegistration",
   ITKFFT |-> "Module_ITKFFT", ITKFastMarching |-> "Module_ITKFastMarching",
   ITKGIFTI |-> "Module_ITKGIFTI", ITKIOCSV |-> "Module_ITKIOCSV", ITKIOGE |-> "Module_ITKIOGE",
   ITKIOIPL |-> "Module_ITKIOIPL", ITKIOMesh |-> "Module_ITKIOMesh",
   ITKIOPhilipsREC |-> "Module_ITKIOPhilipsREC", ITKIORAW |-> "Module_ITKIORAW",
   ITKIOSiemens |-> "Module_ITKIOSiemens", ITKIOSpatialObjects |-> "Module_ITKIOSpatialObjects",
   ITKIOTransformBase |-> "Module_ITKIOTransformBase",
   ITKIOTransformInsightLegacy |-> "Module_ITKIOTransformInsightLegacy",
   ITKIOTransformMatlab |-> "Module_ITKIOTransformMatlab", ITKIOXML |-> "Module_ITKIOXML",
   ITKImageCompare |-> "Module_ITKImageCompare", ITKImageCompose |-> "Module_ITKImageCompose",
   ITKImageFeature |-> "Module_ITKImageFeature", ITKImageFusion |-> "Module_ITKImageFusion",
   ITKImageGradient |-> "Module_ITKImageGradient", ITKImageGrid |-> "Module_ITKImageGrid",
   ITKImageIntensity |-> "Module_ITKImageIntensity", ITKImageLabel |-> "Module_ITKImageLabel",
   ITKImageSources |-> "Module_ITKImageSources",
   ITKImageStatistics |-> "Module_ITKImageStatistics",
   ITKIntegratedTest |-> "Module_ITKIntegratedTest",
   ITKKLMRegionGrowing |-> "Module_ITKKLMRegionGrowing", ITKLabelMap |-> "Module_ITKLabelMap",
   ITKLabelVoting |-> "Module_ITKLabelVoting", ITKLevelSets |-> "Module_ITKLevelSets",
   ITKLevelSetsv4 |-> "Module_ITKLevelSetsv4",
   ITKMarkovRandomFieldsClassifiers |-> "Module_ITKMarkovRandomFieldsClassifiers",
   ITKMathematicalMorphology |-> "Module_ITKMathematicalMorphology",
   ITKMetricsv4 |-> "Module_ITKMetricsv4", ITKNarrowBand |-> "Module_ITKNarrowBand",
   ITKNeuralNetworks |-> "Module_ITKNeuralNetworks", ITKOptimizers |-> "Module_ITKOptimizers",
   ITKOptimizersv4 |-> "Module_ITKOptimizersv4",
   ITKPDEDeformableRegistration |-> "Module_ITKPDEDeformableRegistration",
   ITKPath |-> "Module_ITKPath", ITKPolynomials |-> "Module_ITKPolynomials",
   ITKQuadEdgeMeshFiltering |-> "Module_ITKQuadEdgeMeshFiltering",
   ITKRegionGrowing |-> "Module_ITKRegionGrowing",
   ITKRegistrationCommon |-> "Module_ITKRegistrationCommon",
   ITKRegistrationMethodsv4 |-> "Module_ITKRegistrationMethodsv4",
   ITKReview |-> "Module_ITKReview",
   ITKSignedDistanceFunction |-> "Module_ITKSignedDistanceFunction",
   ITKSmoothing |-> "Module_ITKSmoothing", ITKSpatialFunction |-> "Module_ITKSpatialFunction",
   ITKTBB |-> "Module_ITKTBB", ITKThresholding |-> "Module_ITKThresholding",
   ITKVideoCore |-> "Module_ITKVideoCore", ITKVideoFiltering |-> "Module_ITKVideoFiltering",
   ITKVideoIO |-> "Module_ITKVideoIO", ITKVoronoi |-> "Module_ITKVoronoi",
   ITKWatersheds |-> "Module_ITKWatersheds", ITKDICOMParser |-> "Module_ITKDICOMParser",
   ITKVTK |-> "Module_ITKVTK", ITKVtkGlue |-> "Module_ITKVtkGlue",
   ITKLevelSetsv4Visualization |-> "Module_ITKLevelSetsv4Visualization",
   ITKVideoBridgeVXL |-> "Module_ITKVideoBridgeVXL", IOScanco |-> "Module_IOScanco",
   ITKDCMTK |-> "Module_ITKDCMTK", ITKIODCMTK |-> "Module_ITKIODCMTK",
   ITKCudaCommon |-> "Module_ITKCudaCommon", itkRTK |-> "Module_RTK",
   ITKGPUAnisotropicSmoothing |-> "Module_ITKGPUAnisotropicSmoothing",
   ITKGPUImageFilterBase |-> "Module_ITKGPUImageFilterBase",
   ITKGPUPDEDeformableRegistration |-> "Module_ITKGPUPDEDeformableRegistration",
   ITKGPURegistrationCommon |-> "Module_ITKGPURegistrationCommon",
   ITKGPUSmoothing |-> "Module_ITKGPUSmoothing",
   ITKGPUThresholding |-> "Module_ITKGPUThresholding"]

\* the definitions _configure_elastix sets from the options and the version
ElastixDefinitions(o, v) ==
  LET e0 == [BUILD_SHARED_LIBS |-> o.shared, ITK_BUILD_SHARED |-> o.shared,
             ELASTIX_USE_OPENCL |-> o.with_gpu, ELASTIX_USE_EIGEN |-> TRUE,
             ELASTIX_USE_OPENMP |-> TRUE,
             ITK_WRAP_PYTHON |-> IsNotNone(o.with_python_bindings),
             BUILD_TESTING |-> FALSE,
             ITK_VERSION_MAJOR |-> v.major, ITK_VERSION_MINOR |-> v.minor,
             ITK_WRAPPING |-> _build_bindings(o),
             ITK_USE_SYSTEM_LIBRARIES |-> TRUE]
  IN IF OptionTruthy(o.with_python_bindings)
     THEN [PY_SITE_PACKAGES_PATH |-> "package_folder/lib/site-packages"] @@ e0
     ELSE e0

\* ---- config_options(), configure(), requirements() ----

\* del self.options.fPIC: the option is gone afterwards; deleting an option
\* that is already gone changes nothing and raises nothing
DelOption(opt) == <<>>

\* what the del statement raises: Options.__delattr__ keeps the exception of
\* a missing option to itself
DelOptionError(opt) == NoError

config_options_fPIC(f, os) == IF os = "Windows" THEN DelOption(f) ELSE f

configure_fPIC(f, shared) == IF shared THEN DelOption(f) ELSE f

\* requirements() declaring gdcm only together with dcmtk
\* a reference "name/version" as <<name, version>>
Requirements_gdcm_with_dcmtk(o) ==
  (IF o.with_dcmtk THEN << <<"dcmtk", "3.6.6">> >> ELSE <<>>)
  \o (IF o.with_gdcm /\ o.with_dcmtk THEN << <<"gdcm", "3.0.9">> >> ELSE <<>>)
  \o (IF o.with_elastix /\ OptionTruthy(o.with_python_bindings)
      THEN << <<"libdeflate", "1.14">> >> ELSE <<>>)
  \o << <<"double-conversion", "3.2.0">>, <<"eigen", "3.4.0">>, <<"expat", "2.4.8">>,
        <<"fftw", "3.3.9">>, <<"hdf5", "1.12.0">>, <<"libjpeg", "9d">>,
        <<"libpng", "1.6.37">>, <<"libtiff", "4.3.0">>, <<"onetbb", "2021.7.0">>,
        <<"zlib", "1.2.12">> >>

\* a reference "name/version" as <<name, version>>
Requirements(o) ==
  (IF o.with_dcmtk THEN << <<"dcmtk", "3.6.6">> >> ELSE <<>>)
  \o (IF o.with_gdcm THEN << <<"gdcm", "3.0.9">> >> ELSE <<>>)
  \o (IF o.with_elastix /\ OptionTruthy(o.with_python_bindings)
      THEN << <<"libdeflate", "1.14">> >> ELSE <<>>)
  \o << <<"double-conversion", "3.2.0">>, <<"eigen", "3.4.0">>, <<"expat", "2.4.8">>,
        <<"fftw", "3.3.9">>, <<"hdf5", "1.12.0">>, <<"libjpeg", "9d">>,
        <<"libpng", "1.6.37">>, <<"libtiff", "4.3.0">>, <<"onetbb", "2021.7.0">>,
        <<"zlib", "1.2.12">> >>

\* ---- the recipe instance ----
VARIABLES
  options,        \* self.options
  hdf5_shared,    \* self.options["hdf5"].shared
  version,        \* self.version as major / minor
  settings,       \* self.settings
  pc,             \* the lifecycle step reached
  error,          \* the exception that ended the run, NoError if none
  output,         \* self.output: the warnings printed
  _cmake,         \* self._cmake: <<>> is None, else << the CMake object >>
  elastix_cache,  \* the lru_cache(1) of _configure_elastix
  next_id,        \* identity of the next CMake object constructed
  log,            \* the build-tool steps run so far
  modules,        \* the dict _itk_components returned last
  alias_targets,  \* the alias -> aliased pairs package() writes
  cpp_info,       \* self.cpp_info.components, in insertion order
  fPIC,           \* self.options.fPIC: <<>> once deleted, else << its value >>
  requires,       \* the references requirements() declared, in order
  walk            \* the consumer's resolution of one component's requirements

vars == <<options, hdf5_shared, version, settings, pc, error, output, _cmake,
          elastix_cache, next_id, log, modules, alias_targets, cpp_info, walk,
          fPIC, requires>>

inputs == <<options, hdf5_shared, version, settings>>

configured == <<fPIC, requires>>

Idle == [status |-> "idle", start |-> "", out |-> <<>>, stack |-> <<>>]

Step(s, t, obj) == [step |-> s, target |-> t, obj |-> obj]

Init ==
  /\ options \in Options
  /\ hdf5_shared \in BOOLEAN
  /\ version \in Versions
  /\ settings \in Settings
  /\ pc = "validate"
  /\ error = NoError
  /\ output = <<>>
  /\ _cmake = <<>>
  /\ elastix_cache = <<>>
  /\ next_id = 1
  /\ log = <<>>
  /\ modules = <<>>
  /\ alias_targets = <<>>
  /\ cpp_info = <<>>
  /\ walk = Idle
  /\ fPIC = configure_fPIC(config_options_fPIC(<<default_options.fPIC>>, settings.os), options.shared)
  /\ requires = Requirements(options)

\* validate() reporting the error without raising it
validate_warns ==
  /\ pc = "validate"
  /\ error' = ValidateError(options, hdf5_shared, version, settings)
  /\ output' = IF ValidateWarns(options, hdf5_shared, version, settings)
               THEN Append(output, "recipe lacks information about the compiler support")
               ELSE output
  /\ pc' = "build"
  /\ UNCHANGED <<inputs, configured, _cmake, elastix_cache, next_id, log, modules, alias_targets, cpp_info, walk>>

\* validate(): an exception ends the run, otherwise the build may start
validate ==
  /\ pc = "validate"
  /\ error' = ValidateError(options, hdf5_shared, version, settings)
  /\ output' = IF ValidateWarns(options, hdf5_shared, version, settings)
               THEN Append(output, "recipe lacks information about the compiler support")
               ELSE output
  /\ pc' = IF error' = NoError THEN "build" ELSE "invalid"
  /\ UNCHANGED <<inputs, configured, _cmake, elastix_cache, next_id, log, modules, alias_targets, cpp_info, walk>>

\* _configure_cmake() on the instance state st = [_cmake, next_id, log]
_configure_cmake(st) ==
  IF st._cmake # <<>> THEN st
  ELSE [_cmake |-> << [id |-> st.next_id, definitions |-> CmakeDefinitions(options)] >>,
        next_id |-> st.next_id + 1,
        log |-> Append(st.log, Step("configure", "itk", st.next_id))]

\* _configure_elastix(*args) behind functools.lru_cache(1): key is the
\* argument tuple of the call; st = [elastix_cache, next_id, log, cmake]
_configure_elastix(st, key) ==
  IF st.elastix_cache # <<>> /\ st.elastix_cache[1].key = key
  THEN [st EXCEPT !.cmake = st.elastix_cache[1].value]
  ELSE LET obj == [id |-> st.next_id, definitions |-> ElastixDefinitions(options, version)]
       IN [elastix_cache |-> << [key |-> key, value |-> obj] >>,
           next_id |-> st.next_id + 1,
           log |-> Append(st.log, Step("configure", "elastix", st.next_id)),
           cmake |-> obj]

_patch_rtk(lg) ==
  IF options.with_rtk /\ options.shared /\ settings.os = "Windows"
  THEN Append(lg, Step("patch", "rtk", 0))
  ELSE lg

build ==
  /\ pc = "build"
  /\ LET s0 == [_cmake |-> _cmake, next_id |-> next_id,
                log |-> Append(log, Step("patch", "itk", 0))]
         s1 == _configure_cmake(s0)
         l2 == Append(_patch_rtk(s1.log), Step("build", "itk", s1._cmake[1].id))
         s3 == _configure_cmake([s1 EXCEPT !.log = l2])
         l4 == Append(Append(s3.log, Step("install", "itk", s3._cmake[1].id)),
                      Step("clone", "elastix", 0))
         s5 == _configure_elastix([elastix_cache |-> elastix_cache, next_id |-> s3.next_id,
                                   log |-> l4, cmake |-> <<>>], "()")
         l6 == Append(Append(s5.log, Step("patch", "elastix", 0)),
                      Step("build", "elastix", s5.cmake.id))
     IN IF options.with_elastix
        THEN /\ _cmake' = s3._cmake
             /\ elastix_cache' = s5.elastix_cache
             /\ next_id' = s5.next_id
             /\ log' = l6
        ELSE /\ _cmake' = s1._cmake
             /\ elastix_cache' = elastix_cache
             /\ next_id' = s1.next_id
             /\ log' = l2
  /\ pc' = "package"
  /\ UNCHANGED <<inputs, configured, error, output, modules, alias_targets, cpp_info, walk>>

\* the targets dict package() hands to _create_cmake_module_alias_targets
AliasTargets(m) == [i \in 1..Len(m) |-> <<m[i].name, "ITK::", m[i].name>>]

\* package() installing ITK again before elastix
package_installs_itk ==
  /\ pc = "package"
  /\ IF ~options.with_elastix
     THEN LET s1 == _configure_cmake([_cmake |-> _cmake, next_id |-> next_id, log |-> log])
          IN /\ _cmake' = s1._cmake
             /\ next_id' = s1.next_id
             /\ log' = Append(s1.log, Step("install", "itk", s1._cmake[1].id))
             /\ elastix_cache' = elastix_cache
     ELSE LET s1 == _configure_elastix([elastix_cache |-> elastix_cache, next_id |-> next_id,
                                        log |-> log, cmake |-> <<>>], "(download_source=False)")
          IN /\ elastix_cache' = s1.elastix_cache
             /\ next_id' = s1.next_id
             /\ log' = Append(Append(s1.log, Step("install", "itk", _cmake[1].id)),
                              Step("install", "elastix", s1.cmake.id))
             /\ _cmake' = _cmake
  /\ \E m \in {_itk_components(options, settings.os)} :
       /\ modules' = m
       /\ alias_targets' = AliasTargets(m)
  /\ pc' = "package_info"
  /\ UNCHANGED <<inputs, configured, error, output, cpp_info, walk>>

package ==
  /\ pc = "package"
  /\ IF ~options.with_elastix
     THEN LET s1 == _configure_cmake([_cmake |-> _cmake, next_id |-> next_id, log |-> log])
          IN /\ _cmake' = s1._cmake
             /\ next_id' = s1.next_id
             /\ log' = Append(s1.log, Step("install", "itk", s1._cmake[1].id))
             /\ elastix_cache' = elastix_cache
     ELSE LET s1 == _configure_elastix([elastix_cache |-> elastix_cache, next_id |-> next_id,
                                        log |-> log, cmake |-> <<>>], "(download_source=False)")
          IN /\ elastix_cache' = s1.elastix_cache
             /\ next_id' = s1.next_id
             /\ log' = Append(s1.log, Step("install", "elastix", s1.cmake.id))
             /\ _cmake' = _cmake
  /\ \E m \in {_itk_components(options, settings.os)} :
       /\ modules' = m
       /\ alias_targets' = AliasTargets(m)
  /\ pc' = "package_info"
  /\ UNCHANGED <<inputs, configured, error, output, cpp_info, walk>>

_itk_subdir(v) == <<"ITK-", v.major, ".", v.minor>>

\* package_info putting the component's extra libs before its own library
ComponentInfo_libs_first(c, v) ==
  [name |-> c.name,
   cmake_target_name |-> c.name,
   includedirs |-> << <<"include">> \o _itk_subdir(v) >> \o [i \in 1..Len(c.includes) |-> <<c.includes[i]>>],
   libs |-> IF ~c.header_only
            THEN [i \in 1..Len(c.libs) |-> <<c.libs[i]>>] \o << <<c.name, "-", v.major, ".", v.minor>> >>
            ELSE <<>>,
   system_libs |-> c.system_libs,
   requires |-> c.requires]

\* the cpp_info component package_info fills in for one table entry
ComponentInfo(c, v) ==
  [name |-> c.name,
   cmake_target_name |-> c.name,
   includedirs |-> << <<"include">> \o _itk_subdir(v) >> \o [i \in 1..Len(c.includes) |-> <<c.includes[i]>>],
   libs |-> IF ~c.header_only
            THEN << <<c.name, "-", v.major, ".", v.minor>> >> \o [i \in 1..Len(c.libs) |-> <<c.libs[i]>>]
            ELSE <<>>,
   system_libs |-> c.system_libs,
   requires |-> c.requires]

package_info ==
  /\ pc = "package_info"
  /\ \E m \in {_itk_components(options, settings.os)} :
       /\ modules' = m
       /\ cpp_info' = [i \in 1..Len(m) |-> ComponentInfo(m[i], version)]
  /\ pc' = "done"
  /\ UNCHANGED <<inputs, configured, error, output, _cmake, elastix_cache, next_id, log, alias_targets, walk>>

\* one evaluation of the property _itk_components, for any option values
itk_components ==
  /\ pc = "_itk_components"
  /\ modules' = _itk_components(options, settings.os)
  /\ pc' = "returned"
  /\ UNCHANGED <<inputs, configured, error, output, _cmake, elastix_cache, next_id, log, alias_targets, cpp_info, walk>>

\* ---- resolveTransitiveRequirements over the published components ----

Info(n) == cpp_info[CHOOSE i \in DOMAIN cpp_info : cpp_info[i].name = n]

InSeq(x, q) == \E i \in DOMAIN q : q[i] = x

\* the walk starts from any published component
walk_start ==
  /\ pc = "done"
  /\ walk.status = "idle"
  /\ \E i \in DOMAIN cpp_info :
       walk' = [status |-> "walking", start |-> cpp_info[i].name, out |-> <<>>,
                stack |-> << [name |-> cpp_info[i].name, next |-> 1] >>]
  /\ UNCHANGED <<inputs, configured, pc, error, output, _cmake, elastix_cache, next_id, log,
                 modules, alias_targets, cpp_info>>

\* one step: the next requires entry of the component on top of the stack
walk_step ==
  /\ walk.status = "walking"
  /\ LET top == walk.stack[Len(walk.stack)]
         rest == SubSeq(walk.stack, 1, Len(walk.stack) - 1)
         reqs == Info(top.name).requires
         r == reqs[top.next]
         advanced == Append(rest, [top EXCEPT !.next = top.next + 1])
     IN IF top.next > Len(reqs)
        THEN walk' = [walk EXCEPT !.stack = rest,
                                  !.status = IF rest = <<>> THEN "done" ELSE "walking"]
        ELSE IF ~IsInternal(r)
        THEN walk' = [walk EXCEPT !.stack = advanced,
                                  !.out = IF InSeq(r, walk.out) THEN @ ELSE Append(@, r)]
        ELSE IF \E k \in DOMAIN walk.stack : walk.stack[k].name = r[1]
        THEN walk' = [walk EXCEPT !.status = "cycle"]
        ELSE IF InSeq(r, walk.out)
        THEN walk' = [walk EXCEPT !.stack = advanced]
        ELSE IF r[1] \notin {cpp_info[i].name : i \in DOMAIN cpp_info}
        THEN walk' = [walk EXCEPT !.status = "dangling", !.out = Append(@, r)]
        ELSE walk' = [walk EXCEPT !.stack = Append(advanced, [name |-> r[1], next |-> 1]),
                                  !.out = Append(@, r)]
  /\ UNCHANGED <<inputs, configured, pc, error, output, _cmake, elastix_cache, next_id, log,
                 modules, alias_targets, cpp_info>>

\* config_options(), configure() and requirements(), the steps before validate()
config_options ==
  /\ pc = "config_options"
  /\ fPIC' = config_options_fPIC(fPIC, settings.os)
  /\ error' = IF settings.os = "Windows" THEN DelOptionError(fPIC) ELSE error
  /\ pc' = IF error' = NoError THEN "configure" ELSE "failed"
  /\ UNCHANGED <<inputs, requires, output, _cmake, elastix_cache, next_id, log,
                 modules, alias_targets, cpp_info, walk>>

\* configure() deleting fPIC as it would for a missing option
configure_raises ==
  /\ pc = "configure"
  /\ fPIC' = configure_fPIC(fPIC, options.shared)
  /\ error' = IF options.shared /\ fPIC = <<>> THEN "fPIC" ELSE error
  /\ pc' = IF error' = NoError THEN "requirements" ELSE "failed"
  /\ UNCHANGED <<inputs, requires, output, _cmake, elastix_cache, next_id, log,
                 modules, alias_targets, cpp_info, walk>>

configure ==
  /\ pc = "configure"
  /\ fPIC' = configure_fPIC(fPIC, options.shared)
  /\ error' = IF options.shared THEN DelOptionError(fPIC) ELSE error
  /\ pc' = IF error' = NoError THEN "requirements" ELSE "failed"
  /\ UNCHANGED <<inputs, requires, output, _cmake, elastix_cache, next_id, log,
                 modules, alias_targets, cpp_info, walk>>

requirements ==
  /\ pc = "requirements"
  /\ requires' = requires \o Requirements(options)
  /\ pc' = "validate"
  /\ UNCHANGED <<inputs, fPIC, error, output, _cmake, elastix_cache, next_id, log,
                 modules, alias_targets, cpp_info, walk>>

Next == validate \/ build \/ package \/ package_info

Spec == Init /\ [][Next]_vars

\* the property alone, over every combination of the options it reads
InitComponents ==
  /\ options \in {o \in Options : o.shared = default_options.shared}
  /\ hdf5_shared = FALSE
  /\ version = [major |-> 5, minor |-> 3]
  /\ settings \in {s \in Settings : s.cppstd # 98 /\ s.compiler_version # <<4, 8>>}
  /\ pc = "_itk_components"
  /\ error = NoError
  /\ output = <<>>
  /\ _cmake = <<>>
  /\ elastix_cache = <<>>
  /\ next_id = 1
  /\ log = <<>>
  /\ modules = <<>>
  /\ alias_targets = <<>>
  /\ cpp_info = <<>>
  /\ walk = Idle

  /\ walk = Idle
  /\ fPIC = configure_fPIC(config_options_fPIC(<<default_options.fPIC>>, settings.os), options.shared)
  /\ requires = Requirements(options)

NextComponents == itk_components

SpecComponents == InitComponents /\ [][NextComponents]_vars

\* the steps that run before validate(), from the options as the user set them
InitConfigure ==
  /\ options \in Options
  /\ hdf5_shared = FALSE
  /\ version = [major |-> 5, minor |-> 3]
  /\ settings \in Settings
  /\ fPIC \in {<<TRUE>>, <<FALSE>>}
  /\ requires = <<>>
  /\ pc = "config_options"
  /\ error = NoError
  /\ output = <<>>
  /\ _cmake = <<>>
  /\ elastix_cache = <<>>
  /\ next_id = 1
  /\ log = <<>>
  /\ modules = <<>>
  /\ alias_targets = <<>>
  /\ cpp_info = <<>>
  /\ walk = Idle

NextConfigure == config_options \/ configure \/ requirements

SpecConfigure == InitConfigure /\ [][NextConfigure]_vars

\* the lifecycle followed by the resolution of one component
InitWalk ==
  /\ Init
  /\ options.shared = default_options.shared
  /\ options.with_cuda = default_options.with_cuda
  /\ options.with_gpu = default_options.with_gpu
  /\ options.with_python_bindings = default_options.with_python_bindings
  /\ hdf5_shared = FALSE
  /\ version = [major |-> 5, minor |-> 3]
  /\ settings = [os |-> "Linux", compiler |-> "gcc", compiler_version |-> <<9>>, cppstd |-> 0]

NextWalk == Next \/ walk_start \/ walk_step

SpecWalk == InitWalk /\ [][NextWalk]_vars

\* ---- properties ----

Names(d) == {d[i].name : i \in DOMAIN d}

InternalRequires(c) == {c.requires[k][1] : k \in {k \in DOMAIN c.requires : IsInternal(c.requires[k])}}

\* C1: in every accepted configuration, every internal entry of the requires
\* list of every published component (an entry without "::") is the name of
\* a published component.
C1_NoDanglingRequires ==
  pc = "done" =>
    \A i \in DOMAIN cpp_info : InternalRequires(cpp_info[i]) \subseteq Names(cpp_info)

\* C2 as stated: with_elastix without with_dcmtk is always rejected, by an
\* error naming both options.
C2_ElastixNeedsDcmtk ==
  (pc # "validate" /\ options.with_elastix /\ ~options.with_dcmtk) =>
    (error # NoError /\ {"with_elastix", "with_dcmtk"} \subseteq ErrorNames(error))

\* C2 amended: with_elastix without with_gdcm is always rejected by
\* validate(); the error is the one naming elastix and gdcm unless the
\* shared/hdf5 rule or the version rule, which come first, reject it.
C2_ElastixNeedsGdcm ==
  (pc # "validate" /\ options.with_elastix /\ ~options.with_gdcm) =>
    /\ error \in {ErrHdf5Shared, ErrElastixVersion, ErrElastixGdcm}
    /\ (error \notin {ErrHdf5Shared, ErrElastixVersion} =>
          {"with_elastix", "with_gdcm"} \subseteq ErrorNames(error))
    /\ (error = ErrHdf5Shared => options.shared /\ ~hdf5_shared)
    /\ (error = ErrElastixVersion => version # [major |-> 5, minor |-> 3])

C2_Witness ==
  /\ pc = "invalid" /\ error = ErrElastixGdcm
  /\ options.with_elastix /\ ~options.with_gdcm /\ options.with_dcmtk

\* C3: validate() raises the hdf5 error in every configuration with shared
\* set and hdf5 not shared, and in no other configuration.
C3_SharedNeedsSharedHdf5 ==
  pc # "validate" =>
    ((options.shared /\ ~hdf5_shared) <=> error = ErrHdf5Shared)

C3_Witness ==
  /\ pc = "invalid" /\ error = ErrHdf5Shared /\ options.shared /\ ~hdf5_shared

\* C4: in every accepted configuration the published component names are
\* pairwise distinct, no optional component has the name of an entry of the
\* mandatory table, and the update leaves every optional record as
\* optional_modules built it.
C4_UniqueNames ==
  pc = "done" =>
    /\ \A i, j \in DOMAIN cpp_info : cpp_info[i].name = cpp_info[j].name => i = j
    /\ Names(optional_modules(options)) \cap Names(mandatory_items(settings.os)) = {}
    /\ \A i \in DOMAIN optional_modules(options) : modules[i] = optional_modules(options)[i]

C4_Witness ==
  /\ pc = "done" /\ options.with_scanco /\ options.with_rtk /\ options.with_elastix
  /\ Len(cpp_info) = Len(mandatory_items(settings.os)) + Len(optional_modules(options))

AllOptionalDisabled(o) ==
  /\ ~o.with_dcmtk /\ ~o.with_rtk /\ ~o.with_scanco /\ ~o.with_gdcm
  /\ ~o.with_elastix /\ ~o.with_cuda /\ ~o.with_gpu
  /\ o.with_python_bindings = "None"

OptionalNames == {"ITKIODCMTK", "itkRTK", "IOScanco", "ITKIOGDCM", "ITKElastix"}

\* C5: with every optional feature disabled _itk_components returns exactly
\* the mandatory table, with none of the optional components; under any
\* options every entry of the mandatory table is in the result.
C5_MandatoryAlways ==
  pc = "returned" =>
    /\ AllOptionalDisabled(options) =>
         /\ modules = mandatory_items(settings.os)
         /\ Names(modules) \cap OptionalNames = {}
    /\ \A i \in DOMAIN mandatory_items(settings.os) :
         \E j \in DOMAIN modules : modules[j] = mandatory_items(settings.os)[i]

C5_Witness ==
  /\ pc = "returned" /\ AllOptionalDisabled(options) /\ Len(modules) = 85

C5_WitnessOther ==
  /\ pc = "returned" /\ ~AllOptionalDisabled(options) /\ Len(modules) > 85

\* the modules _configure_cmake switches with with_gpu
GPUFamily ==
  {"ITKGPUAnisotropicSmoothing", "ITKGPUImageFilterBase",
   "ITKGPUPDEDeformableRegistration", "ITKGPURegistrationCommon",
   "ITKGPUSmoothing", "ITKGPUThresholding"}

\* C6: under any options each optional component is in the result exactly
\* when its flag is set, ITKIODCMTK requires exactly ITKIOImageBase and
\* dcmtk::dcmtk, and without with_gpu no GPU module is a component.
C6_OptionalIffFlag ==
  pc = "returned" =>
    /\ ("ITKIODCMTK" \in Names(modules)) <=> options.with_dcmtk
    /\ ("itkRTK" \in Names(modules)) <=> options.with_rtk
    /\ ("IOScanco" \in Names(modules)) <=> options.with_scanco
    /\ ("ITKIOGDCM" \in Names(modules)) <=> options.with_gdcm
    /\ ("ITKElastix" \in Names(modules)) <=> options.with_elastix
    /\ options.with_dcmtk =>
         Get(modules, "ITKIODCMTK").requires = << <<"ITKIOImageBase">>, <<"dcmtk", "dcmtk">> >>
    /\ ~options.with_gpu => Names(modules) \cap GPUFamily = {}

C6_Witness ==
  /\ pc = "returned" /\ options.with_dcmtk /\ ~options.with_gpu /\ ~options.with_elastix
  /\ "ITKIODCMTK" \in Names(modules)

\* the components left after removing, over and over, those that require no
\* component still present
RECURSIVE Peel(_, _)
Peel(S, req) ==
  LET free == {n \in S : req[n] \cap S = {}}
  IN IF free = {} THEN S ELSE Peel(S \ free, req)

Acyclic(d) ==
  Peel(Names(d), [n \in Names(d) |-> InternalRequires(Get(d, n))]) = {}

\* C7: under any options no component of the result reaches itself through
\* internal requires edges.
C7_Acyclic == pc = "returned" => Acyclic(modules)

C7_Witness ==
  /\ pc = "returned" /\ options.with_gdcm
  /\ "ITKIOGDCM" \in InternalRequires(Get(modules, "ITKReview"))
  /\ "ITKCommon" \in InternalRequires(Get(modules, "ITKIOGDCM"))

NoDuplicates(q) == \A i, j \in DOMAIN q : q[i] = q[j] => i = j

\* C8: in an accepted configuration the walk of the requires edges from any
\* published component runs to its end (no missing component, no cycle)
\* and yields each internal name and each external reference at most once.
C8_WalkYieldsOnce ==
  /\ walk.status \in {"idle", "walking", "done"}
  /\ NoDuplicates(walk.out)
  /\ Len(walk.stack) <= Len(cpp_info)

\* C9: when validate() raised, nothing was configured, built or published;
\* cmake objects, build steps, alias targets and component entries exist
\* only after validate() returned.
C9_NothingAfterInvalid ==
  /\ error # NoError =>
       /\ pc = "invalid"
       /\ _cmake = <<>> /\ elastix_cache = <<>> /\ log = <<>>
       /\ alias_targets = <<>> /\ cpp_info = <<>>
  /\ (_cmake # <<>> \/ elastix_cache # <<>> \/ log # <<>> \/ alias_targets # <<>> \/ cpp_info # <<>>) =>
       pc \in {"package", "package_info", "done"}

C9_Witness ==
  /\ pc = "invalid" /\ error = ErrCompiler /\ _cmake = <<>> /\ cpp_info = <<>>

C9_WitnessPublished ==
  /\ pc = "done" /\ error = NoError /\ _cmake # <<>> /\ cpp_info # <<>>

\* the names of the component table in the order the source lists them
CanonicalNames ==
  <<"ITKIODCMTK", "itkRTK", "IOScanco", "ITKIOGDCM", "ITKElastix">> \o KeySeq(MandatoryTablePosix)

\* whether the options include a component of the table
Included(n, o) ==
  CASE n = "ITKIODCMTK" -> o.with_dcmtk
    [] n = "itkRTK"     -> o.with_rtk
    [] n = "IOScanco"   -> o.with_scanco
    [] n = "ITKIOGDCM"  -> o.with_gdcm
    [] n = "ITKElastix" -> o.with_elastix
    [] OTHER            -> TRUE

IncludedIn(o) == LET Inc(n) == Included(n, o) IN SelectSeq(CanonicalNames, Inc)

\* C10: package_info publishes the components, and package() writes the
\* alias targets, in the order of the component table restricted to the
\* components the options include; the two evaluations of _itk_components
\* give the same order.
C10_CanonicalOrder ==
  /\ pc \in {"package_info", "done"} =>
       [i \in DOMAIN alias_targets |-> alias_targets[i][1]] = IncludedIn(options)
  /\ pc = "done" =>
       /\ KeySeq(cpp_info) = IncludedIn(options)
       /\ KeySeq(cpp_info) = [i \in DOMAIN alias_targets |-> alias_targets[i][1]]

C10_Witness ==
  /\ pc = "done" /\ options.with_rtk /\ ~options.with_dcmtk /\ options.with_gdcm
  /\ cpp_info[1].name = "itkRTK" /\ cpp_info[2].name = "ITKIOGDCM" /\ cpp_info[3].name = "itksys"
  /\ alias_targets[1][1] = "itkRTK"

\* C11: every component package_info emits has no libs when header-only and
\* otherwise the list "<name>-<major>.<minor>" followed by the component's
\* libs in table order; its include directories end with
\* include/ITK-<major>.<minor> followed by the component's includes in order.
C11_EmittedLibsAndIncludes ==
  pc = "done" =>
    /\ Len(cpp_info) = Len(modules)
    /\ \A i \in DOMAIN cpp_info :
         LET c == modules[i]
             e == cpp_info[i]
             n == Len(e.includedirs) - Len(c.includes)
         IN /\ e.name = c.name
            /\ c.header_only => e.libs = <<>>
            /\ ~c.header_only =>
                 /\ Len(e.libs) = 1 + Len(c.libs)
                 /\ e.libs[1] = <<c.name, "-", version.major, ".", version.minor>>
                 /\ \A k \in DOMAIN c.libs : e.libs[k + 1] = <<c.libs[k]>>
            /\ n >= 1
            /\ e.includedirs[n] = <<"include", "ITK-", version.major, ".", version.minor>>
            /\ \A k \in DOMAIN c.includes : e.includedirs[n + k] = <<c.includes[k]>>

C11_Witness ==
  /\ pc = "done" /\ options.with_rtk /\ options.with_cuda
  /\ version = [major |-> 5, minor |-> 2]
  /\ Info("itkRTK").libs = << <<"itkRTK", "-", 5, ".", 2>>, <<"lpsolve55">>, <<"ITKCudaCommon">> >>
  /\ Info("itkRTK").includedirs = << <<"include", "ITK-", 5, ".", 2>>, <<"include/RTK/lpsolve">> >>
  /\ Info("itksys").libs = << <<"itksys", "-", 5, ".", 2>> >>

\* the options with the three flags of C12 switched off
WithoutAccelerators(o) ==
  [o EXCEPT !.with_cuda = FALSE, !.with_gpu = FALSE, !.with_python_bindings = "None"]

\* C12: itkRTK's libs are lpsolve55 followed by ITKCudaCommon exactly when
\* with_rtk and with_cuda are both set, lpsolve55 alone under with_rtk
\* without with_cuda, and nothing else in the component table depends on
\* with_cuda, with_gpu or with_python_bindings.
C12_OnlyRtkLibsDependOnCuda ==
  pc = "returned" =>
    LET base == _itk_components(WithoutAccelerators(options), settings.os)
    IN /\ Len(modules) = Len(base)
       /\ \A i \in DOMAIN modules :
            /\ modules[i].name = base[i].name
            /\ modules[i].requires = base[i].requires
            /\ modules[i].includes = base[i].includes
            /\ modules[i].system_libs = base[i].system_libs
            /\ modules[i].header_only = base[i].header_only
            /\ modules[i].name # "itkRTK" => modules[i].libs = base[i].libs
       /\ options.with_rtk =>
            /\ (Get(modules, "itkRTK").libs = <<"lpsolve55", "ITKCudaCommon">>) <=> options.with_cuda
            /\ ~options.with_cuda => Get(modules, "itkRTK").libs = <<"lpsolve55">>

C12_Witness ==
  /\ pc = "returned" /\ options.with_rtk /\ options.with_cuda /\ ~options.with_gpu
  /\ Get(modules, "itkRTK").libs = <<"lpsolve55", "ITKCudaCommon">>

C12_WitnessNoCuda ==
  /\ pc = "returned" /\ options.with_rtk /\ ~options.with_cuda /\ options.with_gpu
  /\ Get(modules, "itkRTK").libs = <<"lpsolve55">>

\* C13: with with_elastix set, validate() rejects every version other than
\* 5.3, and with the error naming the version unless the shared/hdf5 rule,
\* which comes first, rejects the configuration.
C13_ElastixOnlyOn53 ==
  (pc # "validate" /\ options.with_elastix /\ version # [major |-> 5, minor |-> 3]) =>
    /\ error # NoError
    /\ (~(options.shared /\ ~hdf5_shared) => error = ErrElastixVersion)

\* the packages requirements() declared
Declared == {requires[i][1] : i \in DOMAIN requires}

\* C14: validate() rejects with_elastix without with_gdcm, and every accepted
\* configuration with with_elastix has gdcm among the declared requirements
\* and ITKIOGDCM among the components of the graph.
C14_AcceptedElastixHasGdcm ==
  /\ (pc # "validate" /\ options.with_elastix /\ ~options.with_gdcm) => error # NoError
  /\ (pc # "validate" /\ error = NoError /\ options.with_elastix) => "gdcm" \in Declared
  /\ (pc \in {"package_info", "done"} /\ options.with_elastix) => "ITKIOGDCM" \in Names(modules)
  /\ (pc = "done" /\ options.with_elastix) => "ITKIOGDCM" \in Names(cpp_info)

C14_Witness ==
  /\ pc = "done" /\ error = NoError /\ options.with_elastix /\ ~options.with_dcmtk
  /\ "gdcm" \in Declared /\ "ITKIOGDCM" \in Names(cpp_info)

\* the packages named by the external entries ("<pkg>::<component>") of the
\* requires lists of a sequence of components
ExternalPackages(d) ==
  UNION {{d[i].requires[k][1] : k \in {k \in DOMAIN d[i].requires : ~IsInternal(d[i].requires[k])}}
         : i \in DOMAIN d}

\* C18: in every accepted configuration the packages the published
\* components refer to are exactly the packages requirements() declared.
C18_ReferencedIffDeclared ==
  pc = "done" => ExternalPackages(cpp_info) = Declared

\* C20: config_options() and configure() raise nothing, and after both the
\* fPIC option exists exactly when the OS is not Windows and shared is False.
C20_fPICAfterConfigure ==
  /\ error = NoError /\ pc # "failed"
  /\ pc \in {"requirements", "validate"} =>
       ((fPIC # <<>>) <=> (settings.os # "Windows" /\ ~options.shared))

C20_Witness ==
  /\ pc = "requirements" /\ settings.os = "Windows" /\ options.shared
  /\ fPIC = <<>> /\ error = NoError

C20_WitnessKept ==
  /\ pc = "requirements" /\ settings.os # "Windows" /\ ~options.shared /\ fPIC # <<>>

\* the positions of a step on a target in the log of build-tool steps
Positions(s, t) == {i \in DOMAIN log : log[i].step = s /\ log[i].target = t}

\* the CMake objects a step was run on
Objects(s, t) == {log[i].obj : i \in Positions(s, t)}

\* C15: cmake.configure runs at most once for ITK and at most once for
\* elastix, and every install runs on the object that was built.
C15_ConfiguredOnce ==
  /\ Cardinality(Positions("configure", "itk")) <= 1
  /\ Cardinality(Positions("configure", "elastix")) <= 1
  /\ Objects("install", "itk") \subseteq Objects("build", "itk")
  /\ Objects("install", "elastix") \subseteq Objects("build", "elastix")

First(s, t) == CHOOSE i \in Positions(s, t) : \A j \in Positions(s, t) : i <= j

\* C16: after build() and package() the ITK install step has run exactly
\* once; with elastix it ran in build(), after the ITK build and before the
\* clone, configure, patch and build of elastix, and package() ends with the
\* elastix install alone; without elastix it runs only in package().
C16_ItkInstalledOnce ==
  /\ pc = "package" =>
       /\ Cardinality(Positions("install", "itk")) = (IF options.with_elastix THEN 1 ELSE 0)
       /\ Positions("install", "elastix") = {}
       /\ options.with_elastix =>
            /\ First("build", "itk") < First("install", "itk")
            /\ First("install", "itk") < First("clone", "elastix")
            /\ First("clone", "elastix") < First("configure", "elastix")
            /\ First("configure", "elastix") < First("patch", "elastix")
            /\ First("patch", "elastix") < First("build", "elastix")
            /\ First("build", "elastix") = Len(log)
  /\ pc \in {"package_info", "done"} =>
       /\ Cardinality(Positions("install", "itk")) = 1
       /\ options.with_elastix =>
            /\ Positions("install", "elastix") = {Len(log)}
            /\ First("install", "itk") < First("clone", "elastix")
       /\ ~options.with_elastix =>
            /\ Positions("install", "itk") = {Len(log)}
            /\ Positions("install", "elastix") = {}

C16_Witness ==
  /\ pc = "done" /\ options.with_elastix
  /\ Positions("install", "itk") # {} /\ Positions("install", "elastix") = {Len(log)}

C16_WitnessPlain ==
  /\ pc = "done" /\ ~options.with_elastix /\ Positions("install", "itk") = {Len(log)}

\* C17: ITK_WRAP_PYTHON is true exactly when with_python_bindings holds an
\* identifier, and exactly then PY_SITE_PACKAGES_PATH,
\* ITK_WRAP_unsigned_long_long and ITK_WRAP_unsigned_short are defined.
C17_BindingTogglesConsistent ==
  _cmake # <<>> =>
    LET d == _cmake[1].definitions
        bound == options.with_python_bindings # "None"
    IN /\ d["ITK_WRAP_PYTHON"] = bound
       /\ \A k \in {"PY_SITE_PACKAGES_PATH", "ITK_WRAP_unsigned_long_long",
                     "ITK_WRAP_unsigned_short"} : (k \in DOMAIN d) <=> bound

\* whether the ITK configuration defines the toggle of a component as b
Toggled(n, b) ==
  /\ n \in DOMAIN ModuleKeys
  /\ ModuleKeys[n] \in DOMAIN _cmake[1].definitions
  /\ _cmake[1].definitions[ModuleKeys[n]] = b

\* C19: no published component names a module whose toggle is set to
\* False, and ITKIODCMTK, itkRTK and IOScanco are published exactly when
\* their toggles are set to True.
C19_GraphAgreesWithToggles ==
  pc = "done" =>
    /\ \A i \in DOMAIN cpp_info : ~Toggled(cpp_info[i].name, FALSE)
    /\ \A n \in {"ITKIODCMTK", "itkRTK", "IOScanco"} :
         (n \in Names(cpp_info)) <=> Toggled(n, TRUE)

====
